---------------------------- MODULE Spec2Model ----------------------------
(***************************************************************************)
(* State-machine model of contracts/InsiderRingAnalysis.sol: the           *)
(* transaction ledger, the encrypted adjacency matrix, the analysis result *)
(* store and the decryption request / reveal protocol.                     *)
(*                                                                         *)
(* One action per external function.  A Solidity revert undoes every       *)
(* write of the call, so a reverting call changes nothing but lastCall,    *)
(* the model's record of what the caller observed.                         *)
(***************************************************************************)
EXTENDS Integers, Sequences, FiniteSets, TLC

VARIABLES
    transactionCount,          \* uint256 public transactionCount
    encryptedTransactions,     \* mapping(uint256 => EncryptedTransaction)
    analysisResults,           \* mapping(uint256 => AnalysisResult)
    decryptedResults,          \* mapping(uint256 => DecryptedResult)
    encryptedAdjacencyMatrix,  \* euint32[] private encryptedAdjacencyMatrix
    matrixSize,                \* uint256 public matrixSize
    requestToAnalysisId,       \* mapping(uint256 => uint256) requestToAnalysisId
    counterRequest,            \* the oracle's request counter (FHE.requestDecryption)
    requestedHandles,          \* the oracle's record of the batch sent with each request
    issuedFor,                 \* history: the analysis id each token was issued for
    consumed,                  \* history: tokens whose callback has succeeded
    lastCall,                  \* the outcome of the latest external call
    sender,                    \* msg.sender of the latest external call
    dataStore,                 \* dashboard: the key-value data the web client keeps on chain
    sessions                   \* dashboard: each client's submitRing call in progress

ledgerVars   == <<transactionCount, encryptedTransactions>>
matrixVars   == <<encryptedAdjacencyMatrix, matrixSize>>
resultVars   == <<analysisResults, decryptedResults>>
protocolVars == <<requestToAnalysisId, counterRequest, requestedHandles>>
historyVars  == <<issuedFor, consumed>>
contractVars == <<ledgerVars, matrixVars, resultVars, protocolVars>>
dashboardVars == <<dataStore, sessions>>
vars         == <<contractVars, historyVars, lastCall, sender, dashboardVars>>

---------------------------------------------------------------------------
(* Bounds of the model. *)

MaxAnalysisId == 1    \* analysis ids are 0..MaxAnalysisId
MaxPlain      == 1    \* plaintext values are 0..MaxPlain
MaxRing       == 1    \* a stored ring has at most MaxRing members
MaxRequests   == 2    \* the oracle issues at most MaxRequests tokens
MaxTx         == 2    \* the ledger takes at most MaxTx submissions
MaxSize       == 2    \* matrix sizes and indices passed in are 0..MaxSize
MaxClients    == 3    \* dashboard clients, each submitting one ring

AnalysisIds == 0..MaxAnalysisId
MappingKeys == 0..(MaxAnalysisId + 1)   \* the keys of the result mappings the model keeps
RequestIds  == 0..MaxRequests
TxIds       == 1..MaxTx
Plain       == 0..MaxPlain

SeqsUpTo(S, n) == UNION {[1..k -> S] : k \in 0..n}

---------------------------------------------------------------------------
(* The encrypted-integer capability.  A euint32 is an opaque handle; the   *)
(* model keeps the plaintext it encrypts inside the handle so that the     *)
(* oracle can decrypt it.                                                  *)

Enc(v)     == [ct |-> v]
Decrypt(c) == c.ct
NullHandle == [ct |-> -1]      \* an uninitialised euint32 (storage default)
CtValues   == {Enc(v) : v \in Plain}

DecryptBatch(cts) == [i \in 1..Len(cts) |-> Decrypt(cts[i])]

(* abi.encode of a uint32[]: the length word followed by the elements. *)
AbiEncode(values) == <<Len(values)>> \o values
AbiDecodable(bytes) == Len(bytes) >= 1 /\ bytes[1] = Len(bytes) - 1
AbiDecode(bytes) == Tail(bytes)

---------------------------------------------------------------------------
(* Storage defaults and the initial state. *)

EmptyAnalysis ==
    [encryptedRingMembers |-> <<>>, encryptedRiskScore |-> NullHandle,
     isComplete |-> FALSE]

EmptyDecrypted == [ringMembers |-> <<>>, riskScore |-> 0, isRevealed |-> FALSE]

EmptyTransaction ==
    [id |-> 0, encryptedTraderId |-> NullHandle,
     encryptedCounterparty |-> NullHandle, encryptedSecurity |-> NullHandle,
     encryptedAmount |-> NullHandle, encryptedTimestamp |-> NullHandle,
     submissionTime |-> 0]

NotIssued == -1

Outcome(op, arg, ok, err, ret) ==
    [op |-> op, arg |-> arg, ok |-> ok, err |-> err, ret |-> ret]

Init ==
    /\ transactionCount = 0
    /\ encryptedTransactions = [i \in TxIds |-> EmptyTransaction]
    /\ analysisResults = [a \in MappingKeys |-> EmptyAnalysis]
    /\ decryptedResults = [a \in MappingKeys |-> EmptyDecrypted]
    /\ encryptedAdjacencyMatrix = <<>>
    /\ matrixSize = 0
    /\ requestToAnalysisId = [t \in RequestIds |-> 0]
    /\ counterRequest = 0
    /\ requestedHandles = [t \in RequestIds |-> <<>>]
    /\ issuedFor = [t \in RequestIds |-> NotIssued]
    /\ consumed = {}
    /\ lastCall = Outcome("constructor", 0, TRUE, "", <<>>)
    /\ sender = "deployer"
    /\ dataStore = [ringKeys |-> <<>>, rings |-> {}]
    /\ sessions = [c \in 1..MaxClients |-> [pc |-> "idle", keys |-> <<>>, rings |-> {}]]

(* Mutant of Revert: the failing call still uses up an oracle request id. *)
Revert_KeepsRequestId(op, arg, err) ==
    /\ lastCall' = Outcome(op, arg, FALSE, err, <<>>)
    /\ counterRequest' = IF counterRequest < MaxRequests THEN counterRequest + 1
                          ELSE counterRequest
    /\ UNCHANGED <<ledgerVars, matrixVars, resultVars, requestToAnalysisId,
                   requestedHandles, historyVars>>

(* A call that reverts: every write is undone, the caller sees the error. *)
Revert(op, arg, err) ==
    /\ lastCall' = Outcome(op, arg, FALSE, err, <<>>)
    /\ UNCHANGED <<contractVars, historyVars>>


---------------------------------------------------------------------------
(* Transaction ledger. *)

(* Mutant of NewTransactionId: the counter is not advanced past the last id. *)
NewTransactionId_Reused == IF transactionCount = 0 THEN 1 ELSE transactionCount

(* transactionCount++; uint256 newId = transactionCount; *)
NewTransactionId == transactionCount + 1

SubmitEncryptedTransaction(trader, counterparty, security, amount, timestamp, blockTime) ==
    /\ transactionCount < MaxTx
    /\ LET newId == NewTransactionId IN
        /\ transactionCount' = newId
        /\ encryptedTransactions' =
             [encryptedTransactions EXCEPT ![newId] =
                [id |-> newId, encryptedTraderId |-> trader,
                 encryptedCounterparty |-> counterparty,
                 encryptedSecurity |-> security, encryptedAmount |-> amount,
                 encryptedTimestamp |-> timestamp, submissionTime |-> blockTime]]
        /\ lastCall' = Outcome("submitEncryptedTransaction", newId, TRUE, "", <<>>)
    /\ UNCHANGED <<matrixVars, resultVars, protocolVars, historyVars>>

---------------------------------------------------------------------------
(* Adjacency matrix store. *)

(* Position of cell (i, j) in the flattened matrix (1-based sequence). *)
CellIndex(i, j) == i * matrixSize + j + 1

(* Solidity checks every array access: an index past the length panics. *)
InBounds(array, index) == index >= 1 /\ index <= Len(array)

(* Mutant of ZeroMatrix: cells the old matrix already had are kept. *)
ZeroMatrix_KeepsOld(size) ==
    [k \in 1..(size * size) |->
        IF k <= Len(encryptedAdjacencyMatrix)
        THEN encryptedAdjacencyMatrix[k] ELSE Enc(0)]

(* Mutant of ZeroMatrix: 2 * size cells are allocated. *)
ZeroMatrix_Doubled(size) == [k \in 1..(size + size) |-> Enc(0)]

(* new euint32[](size * size), every cell then set to FHE.asEuint32(0) *)
ZeroMatrix(size) == [k \in 1..(size * size) |-> Enc(0)]

(* Mutant of StoredWeight: the weight is added to the cell. *)
StoredWeight_Accumulates(old, weight) == Enc(Decrypt(old) + Decrypt(weight))

(* encryptedAdjacencyMatrix[...] = weight: the cell is overwritten. *)
StoredWeight(old, weight) == weight

(* Mutant of ValidIndex: only the row index is checked. *)
ValidIndex_RowOnly(i, j) == i < matrixSize

(* require(from < matrixSize && to < matrixSize, "Invalid index") *)
ValidIndex(i, j) == i < matrixSize /\ j < matrixSize

InitializeAdjacencyMatrix(size) ==
    /\ matrixSize' = size
    /\ encryptedAdjacencyMatrix' = ZeroMatrix(size)
    /\ lastCall' = Outcome("initializeAdjacencyMatrix", size, TRUE, "", <<>>)
    /\ UNCHANGED <<ledgerVars, resultVars, protocolVars, historyVars>>

AddEncryptedEdge(from, to, weight) ==
    IF ~ValidIndex(from, to)
    THEN Revert("addEncryptedEdge", <<from, to, weight>>, "Invalid index")
    ELSE IF ~InBounds(encryptedAdjacencyMatrix, CellIndex(from, to))
    THEN Revert("addEncryptedEdge", <<from, to, weight>>, "Panic")
    ELSE /\ encryptedAdjacencyMatrix' =
              [encryptedAdjacencyMatrix EXCEPT ![CellIndex(from, to)] =
                  StoredWeight(@, weight)]
         /\ lastCall' = Outcome("addEncryptedEdge", <<from, to, weight>>, TRUE, "", <<>>)
         /\ UNCHANGED <<matrixSize, ledgerVars, resultVars, protocolVars, historyVars>>

GetAdjacencyElement(i, j) ==
    IF ~ValidIndex(i, j)
    THEN Revert("getAdjacencyElement", <<i, j>>, "Invalid index")
    ELSE IF ~InBounds(encryptedAdjacencyMatrix, CellIndex(i, j))
    THEN Revert("getAdjacencyElement", <<i, j>>, "Panic")
    ELSE /\ lastCall' = Outcome("getAdjacencyElement", <<i, j>>, TRUE, "",
                                encryptedAdjacencyMatrix[CellIndex(i, j)])
         /\ UNCHANGED <<contractVars, historyVars>>

(* encryptedBFS, a view: visited, queue and result are allocated with      *)
(* matrixSize cells of encrypted zero, then the loop runs once per i in      *)
(* 0..matrixSize-1.  A round reads and writes visited[FHE.decrypt(current)]  *)
(* and result[FHE.decrypt(index)]; an index past the array length panics.    *)
(* BFSState is the loop's state on entry, BFSLoop the loop from round i on;  *)
(* touched lists, per completed round, the 0-based index of visited and of   *)
(* result that the round read and wrote.                                     *)
BFSState(startNode) ==
    [visited |-> [k \in 1..matrixSize |-> Enc(0)],
     result  |-> [k \in 1..matrixSize |-> Enc(0)],
     current |-> startNode, index |-> Enc(0), rounds |-> 0, ok |-> TRUE,
     touched |-> <<>>]

RECURSIVE BFSLoop(_, _)
BFSLoop(st, i) ==
    IF i >= matrixSize THEN st
    ELSE LET cur == Decrypt(st.current) + 1
             idx == Decrypt(st.index) + 1
         IN  IF ~InBounds(st.visited, cur) \/ ~InBounds(st.result, idx)
             THEN [st EXCEPT !.ok = FALSE]
             ELSE LET isVisited   == st.visited[cur] # Enc(1)
                      shouldVisit == isVisited /\ Decrypt(st.current) > 0
                  IN  BFSLoop([visited |-> [st.visited EXCEPT ![cur] =
                                               IF shouldVisit THEN Enc(1) ELSE @],
                               result  |-> [st.result EXCEPT ![idx] =
                                               IF shouldVisit THEN st.current ELSE @],
                               current |-> Enc(Decrypt(st.current) + 1),
                               index   |-> Enc(Decrypt(st.index) + 1),
                               rounds  |-> st.rounds + 1,
                               ok      |-> TRUE,
                               touched |-> Append(st.touched,
                                              [visited |-> cur - 1, result |-> idx - 1])],
                              i + 1)

EncryptedBFS(startNode) ==
    IF ~(matrixSize > 0)
    THEN Revert("encryptedBFS", startNode, "Matrix not initialized")
    ELSE LET run == BFSLoop(BFSState(startNode), 0) IN
         IF ~run.ok
         THEN Revert("encryptedBFS", startNode, "Panic")
         ELSE /\ lastCall' = Outcome("encryptedBFS", startNode, TRUE, "",
                                     [result |-> run.result, rounds |-> run.rounds,
                                      touched |-> run.touched])
              /\ UNCHANGED <<contractVars, historyVars>>

---------------------------------------------------------------------------
(* Ring detection entry point: derives the analysis id from the block      *)
(* timestamp and emits AnalysisStarted(analysisId); it writes no storage.  *)

StartRingDetection(blockTime) ==
    /\ lastCall' = Outcome("startRingDetection", blockTime, TRUE, "", <<>>)
    /\ UNCHANGED <<contractVars, historyVars>>

---------------------------------------------------------------------------
(* Analysis result store. *)

(* Mutant of StoredDecrypted: only the revealed flag is cleared. *)
StoredDecrypted_KeepsMembers(analysisId) ==
    [decryptedResults[analysisId] EXCEPT !.isRevealed = FALSE]

(* DecryptedResult({ringMembers: new uint32[](0), riskScore: 0, isRevealed: false}) *)
StoredDecrypted(analysisId) ==
    [ringMembers |-> <<>>, riskScore |-> 0, isRevealed |-> FALSE]

StoreAnalysisResults(analysisId, encryptedRing, encryptedRiskScore) ==
    /\ analysisResults' =
         [analysisResults EXCEPT ![analysisId] =
            [encryptedRingMembers |-> encryptedRing,
             encryptedRiskScore |-> encryptedRiskScore,
             isComplete |-> TRUE]]
    /\ decryptedResults' =
         [decryptedResults EXCEPT ![analysisId] = StoredDecrypted(analysisId)]
    /\ lastCall' = Outcome("storeAnalysisResults", analysisId, TRUE, "", <<>>)
    /\ UNCHANGED <<ledgerVars, matrixVars, protocolVars, historyVars>>

GetEncryptedAnalysisResult(analysisId) ==
    LET r == analysisResults[analysisId] IN
    IF ~r.isComplete
    THEN Revert("getEncryptedAnalysisResult", analysisId, "Analysis not complete")
    ELSE /\ lastCall' = Outcome("getEncryptedAnalysisResult", analysisId, TRUE, "",
                                [ringMembers |-> r.encryptedRingMembers,
                                 riskScore |-> r.encryptedRiskScore])
         /\ UNCHANGED <<contractVars, historyVars>>

(* Mutant of GetDecryptedAnalysisResult: the result is deleted once read. *)
GetDecryptedAnalysisResult_Clears(analysisId) ==
    LET r == decryptedResults[analysisId] IN
    /\ lastCall' = Outcome("getDecryptedAnalysisResult", analysisId, TRUE, "",
                           [ringMembers |-> r.ringMembers, riskScore |-> r.riskScore,
                            isRevealed |-> r.isRevealed])
    /\ decryptedResults' = [decryptedResults EXCEPT ![analysisId] = EmptyDecrypted]
    /\ UNCHANGED <<ledgerVars, matrixVars, analysisResults, protocolVars, historyVars>>

GetDecryptedAnalysisResult(analysisId) ==
    LET r == decryptedResults[analysisId] IN
    /\ lastCall' = Outcome("getDecryptedAnalysisResult", analysisId, TRUE, "",
                           [ringMembers |-> r.ringMembers,
                            riskScore |-> r.riskScore,
                            isRevealed |-> r.isRevealed])
    /\ UNCHANGED <<contractVars, historyVars>>

---------------------------------------------------------------------------
(* Decryption request / reveal protocol. *)

(* require(result.isComplete, "Analysis not complete") *)
AnalysisComplete(analysisId) == analysisResults[analysisId].isComplete

(* require(!dResult.isRevealed, "Already revealed"), read from the       *)
(* decrypted results dr.                                                 *)
NotRevealedIn(dr, analysisId) == ~dr[analysisId].isRevealed

(* Mutant of NotRevealed: the reveal check is dropped. *)
NotRevealed_Unchecked(analysisId) == TRUE

(* require(!decryptedResults[analysisId].isRevealed, "Already revealed") *)
NotRevealed(analysisId) == NotRevealedIn(decryptedResults, analysisId)

(* The batch sent to the oracle: every ring member, then the risk score. *)
Ciphertexts(result) ==
    LET n == Len(result.encryptedRingMembers) IN
    [i \in 1..(n + 1) |->
        IF i <= n THEN result.encryptedRingMembers[i] ELSE result.encryptedRiskScore]

RequestResultDecryption(analysisId) ==
    IF ~AnalysisComplete(analysisId)
    THEN Revert("requestResultDecryption", analysisId, "Analysis not complete")
    ELSE IF ~NotRevealed(analysisId)
    THEN Revert("requestResultDecryption", analysisId, "Already revealed")
    ELSE /\ counterRequest < MaxRequests
         /\ LET reqId == counterRequest IN
             /\ requestedHandles' =
                  [requestedHandles EXCEPT ![reqId] =
                     Ciphertexts(analysisResults[analysisId])]
             /\ counterRequest' = counterRequest + 1
             /\ requestToAnalysisId' =
                  [requestToAnalysisId EXCEPT ![reqId] = analysisId]
             /\ issuedFor' = [issuedFor EXCEPT ![reqId] = analysisId]
             /\ lastCall' = Outcome("requestResultDecryption", analysisId, TRUE, "", reqId)
         /\ UNCHANGED <<ledgerVars, matrixVars, resultVars, consumed>>

(* Mutant of RequestKnown: the lookup result is not checked. *)
RequestKnown_Unchecked(requestId) == TRUE

(* require(analysisId != 0, "Invalid request") on the looked-up id *)
RequestKnown(requestId) == requestToAnalysisId[requestId] # 0

(* FHE.checkSignatures: the proof authenticates (requestId, cleartexts) only *)
(* when the oracle signed exactly the decryption of the batch it was sent    *)
(* under requestId.                                                          *)
CheckSignatures(requestId, cleartexts, proof) ==
    /\ proof = "kms"
    /\ requestId < counterRequest
    /\ cleartexts = AbiEncode(DecryptBatch(requestedHandles[requestId]))

(* for (i = 0; i < results.length - 1; i++) members[i] = results[i]; *)
RECURSIVE CopyMembers(_, _, _)
CopyMembers(results, members, i) ==
    IF i < Len(results) - 1
    THEN CopyMembers(results, [members EXCEPT ![i + 1] = results[i + 1]], i + 1)
    ELSE members

(* Mutant of Members: the copy loop runs to results.length, taking the score too. *)
Members_WithScore(results) == results

Members(results) ==
    CopyMembers(results, [k \in 1..(Len(results) - 1) |-> 0], 0)

(* Mutant of RiskScore: the first element is taken for the score. *)
RiskScore_First(results) == results[1]

RiskScore(results) == results[Len(results)]

(* The checks of decryptAnalysisResult in their order, made against the     *)
(* decrypted results dr: the revert reason, or "" when the call goes        *)
(* through.  The abi.decode of an ill-formed payload and the read of        *)
(* results[results.length - 1] on an empty array panic.                     *)
CallbackError(dr, requestId, cleartexts, proof) ==
    IF ~RequestKnown(requestId) THEN "Invalid request"
    ELSE IF ~NotRevealedIn(dr, requestToAnalysisId[requestId]) THEN "Already revealed"
    ELSE IF ~CheckSignatures(requestId, cleartexts, proof) THEN "Proof verification failed"
    ELSE IF ~AbiDecodable(cleartexts) THEN "Panic"
    ELSE IF Len(AbiDecode(cleartexts)) = 0 THEN "Panic"
    ELSE ""

(* Mutant of CallbackWrite: every other decrypted result is reset. *)
CallbackWrite_ResetsOthers(dr, analysisId, results) ==
    [a \in DOMAIN dr |->
        IF a = analysisId
        THEN [ringMembers |-> Members(results), riskScore |-> RiskScore(results),
              isRevealed |-> TRUE]
        ELSE EmptyDecrypted]

(* The writes of decryptAnalysisResult to the decrypted results dr. *)
CallbackWrite(dr, analysisId, results) ==
    [dr EXCEPT ![analysisId] =
        [ringMembers |-> Members(results), riskScore |-> RiskScore(results),
         isRevealed |-> TRUE]]

DecryptAnalysisResult(requestId, cleartexts, proof) ==
    LET err == CallbackError(decryptedResults, requestId, cleartexts, proof) IN
    IF err # ""
    THEN Revert("decryptAnalysisResult", requestId, err)
    ELSE /\ decryptedResults' =
              CallbackWrite(decryptedResults, requestToAnalysisId[requestId],
                            AbiDecode(cleartexts))
         /\ consumed' = consumed \cup {requestId}
         /\ lastCall' = Outcome("decryptAnalysisResult", requestId, TRUE, "", <<>>)
         /\ UNCHANGED <<ledgerVars, matrixVars, analysisResults,
                        protocolVars, issuedFor>>

(* The decrypted results after a callback delivered on dr: what the call    *)
(* writes when it goes through, dr itself when it reverts.                  *)
AfterCallback(dr, requestId, cleartexts, proof) ==
    IF CallbackError(dr, requestId, cleartexts, proof) = ""
    THEN CallbackWrite(dr, requestToAnalysisId[requestId], AbiDecode(cleartexts))
    ELSE dr

---------------------------------------------------------------------------
(* Specification of the analysis result store and the reveal protocol:     *)
(* any caller, any order, any arguments within the bounds.                 *)

Cleartexts == {AbiEncode(p) : p \in SeqsUpTo(Plain, MaxRing + 1)} \cup {<<>>}
Proofs     == {"kms", "tampered"}

Store    == \E a \in AnalysisIds, ring \in SeqsUpTo(CtValues, MaxRing),
               score \in CtValues : StoreAnalysisResults(a, ring, score)
               /\ UNCHANGED <<sender, dashboardVars>>
Request  == \E a \in AnalysisIds : RequestResultDecryption(a)
               /\ UNCHANGED <<sender, dashboardVars>>
Callback == \E t \in RequestIds, c \in Cleartexts, p \in Proofs :
               DecryptAnalysisResult(t, c, p)
               /\ UNCHANGED <<sender, dashboardVars>>
GetEncrypted == \E a \in AnalysisIds : GetEncryptedAnalysisResult(a)
               /\ UNCHANGED <<sender, dashboardVars>>
GetDecrypted == \E a \in AnalysisIds : GetDecryptedAnalysisResult(a)
               /\ UNCHANGED <<sender, dashboardVars>>
NextReveal == Store \/ Request \/ Callback \/ GetEncrypted \/ GetDecrypted

SpecReveal == Init /\ [][NextReveal]_vars

---------------------------------------------------------------------------
(* The adjacency matrix and the traversal on their own: sizes and indices   *)
(* range over 0..MaxSize, so that size zero and out-of-range indices occur.  *)

Sizes      == 0..MaxSize
Indices    == 0..MaxSize
Weights    == {Enc(0), Enc(1)}
StartNodes == {Enc(v) : v \in 0..MaxSize}

MatrixInitialize == \E size \in Sizes : InitializeAdjacencyMatrix(size) /\ UNCHANGED <<sender, dashboardVars>>
MatrixAddEdge == \E from \in Indices, to \in Indices, weight \in Weights : AddEncryptedEdge(from, to, weight) /\ UNCHANGED <<sender, dashboardVars>>
MatrixGetElement == \E i \in Indices, j \in Indices : GetAdjacencyElement(i, j) /\ UNCHANGED <<sender, dashboardVars>>
MatrixBFS == \E startNode \in StartNodes : EncryptedBFS(startNode) /\ UNCHANGED <<sender, dashboardVars>>

NextMatrix == MatrixInitialize \/ MatrixAddEdge \/ MatrixGetElement \/ MatrixBFS

SpecMatrix == Init /\ [][NextMatrix]_vars

---------------------------------------------------------------------------
(* The whole contract: every external function, called by any account in    *)
(* any order, on small inputs.  onlyRegulator is the modifier of lines      *)
(* 49-52, whose body is the placeholder "_;": it admits every caller.       *)

Callers    == {"regulator", "outsider"}
CalledBy(caller) == sender' = caller /\ UNCHANGED dashboardVars
Regulators == {"regulator"}
GatedOps   == {"initializeAdjacencyMatrix", "addEncryptedEdge", "startRingDetection",
               "storeAnalysisResults", "requestResultDecryption"}

OnlyRegulator(caller) == TRUE

SmallSizes == {0, 1}
Bundle     == [ring |-> <<Enc(1)>>, score |-> Enc(0)]

CallSubmit == \E c \in Callers, v \in Plain : CalledBy(c) /\ SubmitEncryptedTransaction(Enc(v), Enc(v), Enc(v), Enc(v), Enc(v), 1)
CallInitialize == \E c \in Callers, size \in SmallSizes : CalledBy(c) /\ OnlyRegulator(c) /\ InitializeAdjacencyMatrix(size)
CallAddEdge == \E c \in Callers, from \in SmallSizes, to \in SmallSizes, weight \in Weights : CalledBy(c) /\ OnlyRegulator(c) /\ AddEncryptedEdge(from, to, weight)
CallStartRingDetection == \E c \in Callers : CalledBy(c) /\ OnlyRegulator(c) /\ StartRingDetection(1)
CallStore == \E c \in Callers, a \in AnalysisIds : CalledBy(c) /\ OnlyRegulator(c) /\ StoreAnalysisResults(a, Bundle.ring, Bundle.score)
CallRequest == \E c \in Callers, a \in AnalysisIds : CalledBy(c) /\ OnlyRegulator(c) /\ RequestResultDecryption(a)
CallCallback == \E c \in Callers, t \in RequestIds, p \in Proofs, x \in {AbiEncode(DecryptBatch(Bundle.ring \o <<Bundle.score>>)), <<>>} : CalledBy(c) /\ DecryptAnalysisResult(t, x, p)
CallGetElement == \E c \in Callers, i \in SmallSizes, j \in SmallSizes : CalledBy(c) /\ GetAdjacencyElement(i, j)
CallGetEncrypted == \E c \in Callers, a \in AnalysisIds : CalledBy(c) /\ GetEncryptedAnalysisResult(a)
CallGetDecrypted == \E c \in Callers, a \in AnalysisIds : CalledBy(c) /\ GetDecryptedAnalysisResult(a)
CallBFS == \E c \in Callers, startNode \in Weights : CalledBy(c) /\ EncryptedBFS(startNode)

NextContract ==
    \/ CallSubmit
    \/ CallInitialize
    \/ CallAddEdge
    \/ CallStartRingDetection
    \/ CallStore
    \/ CallRequest
    \/ CallCallback
    \/ CallGetElement
    \/ CallGetEncrypted
    \/ CallGetDecrypted
    \/ CallBFS

SpecContract == Init /\ [][NextContract]_vars

---------------------------------------------------------------------------
(* Two analyses side by side: the ids MaxAnalysisId and MaxAnalysisId + 1,  *)
(* both different from 0, each with its own bundle, so that tokens of two   *)
(* distinct analyses are pending together.                                  *)

PairIds == {MaxAnalysisId, MaxAnalysisId + 1}
PairBundle(a) ==
    IF a = MaxAnalysisId THEN [ring |-> <<Enc(1)>>, score |-> Enc(0)]
    ELSE [ring |-> <<>>, score |-> Enc(1)]
PairCleartexts(a) == AbiEncode(DecryptBatch(PairBundle(a).ring \o <<PairBundle(a).score>>))

PairStore == \E a \in PairIds : StoreAnalysisResults(a, PairBundle(a).ring, PairBundle(a).score) /\ UNCHANGED <<sender, dashboardVars>>
PairRequest == \E a \in PairIds : RequestResultDecryption(a) /\ UNCHANGED <<sender, dashboardVars>>
PairCallback == \E t \in RequestIds, a \in PairIds, p \in Proofs : DecryptAnalysisResult(t, PairCleartexts(a), p) /\ UNCHANGED <<sender, dashboardVars>>
PairGetEncrypted == \E a \in PairIds : GetEncryptedAnalysisResult(a) /\ UNCHANGED <<sender, dashboardVars>>
PairGetDecrypted == \E a \in PairIds : GetDecryptedAnalysisResult(a) /\ UNCHANGED <<sender, dashboardVars>>

NextPair == PairStore \/ PairRequest \/ PairCallback \/ PairGetEncrypted \/ PairGetDecrypted

SpecPair == Init /\ [][NextPair]_vars

---------------------------------------------------------------------------
(* The dashboard's case registry (frontend/web/src/App.tsx).  The web       *)
(* client keeps each ring under the key ring_<id> and the list of ids under *)
(* the key ring_keys, through setData / getData of its data contract.       *)
(* submitRing is a sequence of awaited calls, so calls of several clients   *)
(* interleave between them: one action per awaited call.                    *)

Clients == 1..MaxClients

(* `${Date.now()}-${Math.random()...}`: an id no other call produces. *)
RingId(c) == c

(* JSON.stringify of the key list as stored bytes: the opening bracket      *)
(* (written 0, ring ids being positive) and then the ids, so that the       *)
(* empty list is not the empty byte string.                                 *)
JsonStringify(keys) == <<0>> \o keys

(* if (keysBytes.length > 0) keys = JSON.parse(...), else, or when the      *)
(* parse throws, keys stays [].                                             *)
ParseKeys(bytes) ==
    IF Len(bytes) > 0 /\ Head(bytes) = 0 THEN Tail(bytes) ELSE <<>>

Elements(seq) == {seq[i] : i \in 1..Len(seq)}

DashboardStep(c, session) ==
    /\ sessions' = [sessions EXCEPT ![c] = session]
    /\ UNCHANGED <<contractVars, historyVars, lastCall, sender>>

(* await contract.setData(`ring_${ringId}`, ...) *)
SubmitRingStore(c) ==
    /\ sessions[c].pc = "idle"
    /\ dataStore' = [dataStore EXCEPT !.rings = @ \cup {RingId(c)}]
    /\ DashboardStep(c, [sessions[c] EXCEPT !.pc = "stored"])

(* const keysBytes = await contract.getData("ring_keys"); keys = parse *)
SubmitRingReadKeys(c) ==
    /\ sessions[c].pc = "stored"
    /\ dataStore' = dataStore
    /\ DashboardStep(c, [sessions[c] EXCEPT !.pc = "read",
                                             !.keys = ParseKeys(dataStore.ringKeys)])

(* keys.push(ringId); await contract.setData("ring_keys", ...) *)
SubmitRingWriteKeys(c) ==
    /\ sessions[c].pc = "read"
    /\ dataStore' = [dataStore EXCEPT !.ringKeys =
                        JsonStringify(Append(sessions[c].keys, RingId(c)))]
    /\ DashboardStep(c, [sessions[c] EXCEPT !.pc = "written",
                                             !.keys = Append(@, RingId(c))])

(* await loadRings(): the rings whose id is in ring_keys and whose record   *)
(* is not empty; submitRing then reports success.                           *)
LoadRings(c) ==
    /\ sessions[c].pc = "written"
    /\ dataStore' = dataStore
    /\ DashboardStep(c, [sessions[c] EXCEPT !.pc = "done",
              !.rings = {k \in Elements(ParseKeys(dataStore.ringKeys)) :
                            k \in dataStore.rings}])

(* A setData that throws (the user rejects the transaction): the catch      *)
(* block reports the failure and the call ends.                             *)
SubmitRingFails(c) ==
    /\ sessions[c].pc \in {"idle", "read"}
    /\ dataStore' = dataStore
    /\ DashboardStep(c, [sessions[c] EXCEPT !.pc = "failed"])

DashStore     == \E c \in Clients : SubmitRingStore(c)
DashReadKeys  == \E c \in Clients : SubmitRingReadKeys(c)
DashWriteKeys == \E c \in Clients : SubmitRingWriteKeys(c)
DashLoadRings == \E c \in Clients : LoadRings(c)
DashFails     == \E c \in Clients : SubmitRingFails(c)

NextDashboard == DashStore \/ DashReadKeys \/ DashWriteKeys \/ DashLoadRings \/ DashFails

SpecDashboard == Init /\ [][NextDashboard]_vars

---------------------------------------------------------------------------
(* The end-to-end scenario: a 4-node matrix with the cycle 0 -> 1 -> 2 -> 0, *)
(* an analysis stored under id 1 whose bundle encrypts members [1,2,0,0]    *)
(* and score 3, a reveal request and the oracle's callback.                *)

E2E ==
    [size |-> 4, analysisId |-> 1, members |-> <<1, 2, 0, 0>>, score |-> 3,
     edges |-> {<<0, 1>>, <<1, 2>>, <<2, 0>>}, noEdge |-> <<3, 3>>]

E2EPlaintexts == E2E.members \o <<E2E.score>>

E2EInitialize == InitializeAdjacencyMatrix(E2E.size) /\ UNCHANGED <<sender, dashboardVars>>
E2EAddEdge ==
    /\ \/ \E e \in E2E.edges : AddEncryptedEdge(e[1], e[2], Enc(1))
       \/ AddEncryptedEdge(E2E.noEdge[1], E2E.noEdge[2], Enc(0))
    /\ UNCHANGED <<sender, dashboardVars>>
E2EStartRingDetection == StartRingDetection(E2E.analysisId) /\ UNCHANGED <<sender, dashboardVars>>
E2EStore ==
    /\ StoreAnalysisResults(E2E.analysisId,
                            [i \in 1..Len(E2E.members) |-> Enc(E2E.members[i])],
                            Enc(E2E.score))
    /\ UNCHANGED <<sender, dashboardVars>>
E2ERequest == RequestResultDecryption(E2E.analysisId) /\ UNCHANGED <<sender, dashboardVars>>
E2ECallback ==
    \E t \in RequestIds, p \in Proofs,
       c \in {AbiEncode(E2EPlaintexts), AbiEncode(<<1, 2, 0, 3>>)} :
        DecryptAnalysisResult(t, c, p) /\ UNCHANGED <<sender, dashboardVars>>
E2EGetDecrypted == GetDecryptedAnalysisResult(E2E.analysisId) /\ UNCHANGED <<sender, dashboardVars>>

NextE2E ==
    \/ E2EInitialize
    \/ E2EAddEdge
    \/ E2EStartRingDetection
    \/ E2EStore
    \/ E2ERequest
    \/ E2ECallback
    \/ E2EGetDecrypted

SpecE2E == Init /\ [][NextE2E]_vars

(* The matrix the scenario builds. *)
E2EMatrixBuilt ==
    /\ matrixSize = E2E.size
    /\ \A i, j \in 0..(E2E.size - 1) :
          encryptedAdjacencyMatrix[i * matrixSize + j + 1] =
             Enc(IF <<i, j>> \in E2E.edges THEN 1 ELSE 0)

---------------------------------------------------------------------------
(* Properties. *)

Live(t) == issuedFor[t] # NotIssued /\ t \notin consumed

(* C1: once a Decrypted Result is revealed it is never unrevealed again,   *)
(* whatever operation follows.                                             *)
C1_NeverUnrevealed ==
    [][\A a \in AnalysisIds :
         decryptedResults[a].isRevealed => decryptedResults'[a].isRevealed]_vars

(* C2: a callback succeeds at most once per token: no successful callback  *)
(* carries a token that an earlier successful callback already consumed.   *)
C2_TokenProcessedOnce ==
    [][(lastCall'.op = "decryptAnalysisResult" /\ lastCall'.ok) =>
          lastCall'.arg \notin consumed]_vars

(* C3: a callback carrying an already consumed token fails with            *)
(* "Invalid request" and leaves the Decrypted Results as they were.        *)
C3_ConsumedTokenRejected ==
    [][(lastCall'.op = "decryptAnalysisResult" /\ lastCall'.arg \in consumed) =>
          /\ ~lastCall'.ok
          /\ lastCall'.err = "Invalid request"
          /\ decryptedResults' = decryptedResults]_vars

(* C4: a callback carrying a token that was never issued fails with        *)
(* "Invalid request" and leaves every Decrypted Result unchanged.          *)
C4_UnissuedTokenRejected ==
    [][(lastCall'.op = "decryptAnalysisResult"
           /\ issuedFor[lastCall'.arg] = NotIssued) =>
          /\ ~lastCall'.ok
          /\ lastCall'.err = "Invalid request"
          /\ decryptedResults' = decryptedResults]_vars

C4_Witness ==
    /\ lastCall.op = "decryptAnalysisResult"
    /\ issuedFor[lastCall.arg] = NotIssued
    /\ lastCall.err = "Invalid request"
    /\ \E a \in AnalysisIds : decryptedResults[a].isRevealed

(* C5: every analysis id has at most one live (issued and not yet          *)
(* consumed) decryption request.                                           *)
C5_OneLiveRequestPerAnalysis ==
    \A a \in AnalysisIds :
        Cardinality({t \in RequestIds : Live(t) /\ issuedFor[t] = a}) <= 1

(* C6: requestResultDecryption fails with "Analysis not complete" when no  *)
(* complete bundle is stored, and with "Already revealed" when the paired  *)
(* Decrypted Result is revealed; either way no token is recorded and the   *)
(* contract state is unchanged.                                            *)
C6_RequestRejected ==
    [][lastCall'.op = "requestResultDecryption" =>
          LET a == lastCall'.arg IN
          /\ ~analysisResults[a].isComplete =>
                /\ ~lastCall'.ok
                /\ lastCall'.err = "Analysis not complete"
                /\ UNCHANGED <<contractVars, historyVars>>
          /\ decryptedResults[a].isRevealed =>
                /\ ~lastCall'.ok
                /\ lastCall'.err = "Already revealed"
                /\ UNCHANGED <<contractVars, historyVars>>]_vars

C6_Witness ==
    /\ lastCall.op = "requestResultDecryption"
    /\ lastCall.err = "Already revealed"
    /\ decryptedResults[lastCall.arg].isRevealed

(* C7: a callback with a proof that does not verify, for a live token of   *)
(* an unrevealed analysis, fails with "Proof verification failed", changes *)
(* no state, and leaves the token able to complete: the oracle's correctly *)
(* proved callback for it would pass the lookup and the reveal check.      *)
C7_BadProofKeepsTokenPending ==
    [][LET t == lastCall'.arg IN
       ( /\ lastCall'.op = "decryptAnalysisResult"
         /\ Live(t)
         /\ ~decryptedResults[issuedFor[t]].isRevealed ) =>
          \A c \in Cleartexts, p \in Proofs :
             (~CheckSignatures(t, c, p) /\ DecryptAnalysisResult(t, c, p)) =>
                /\ ~lastCall'.ok
                /\ lastCall'.err = "Proof verification failed"
                /\ UNCHANGED <<contractVars, historyVars>>
                /\ requestToAnalysisId'[t] # 0
                /\ ~decryptedResults'[requestToAnalysisId'[t]].isRevealed]_vars

(* C8: storing under an analysis id that already holds a complete result   *)
(* fails and overwrites neither the bundle nor the Decrypted Result.       *)
C8_StoreRejectsDuplicate ==
    [][(lastCall'.op = "storeAnalysisResults"
           /\ analysisResults[lastCall'.arg].isComplete) =>
          /\ ~lastCall'.ok
          /\ UNCHANGED resultVars]_vars

(* C9: a successful callback with plaintexts p[1..n] has n >= 1 and writes *)
(* ringMembers = p[1..n-1] in order, riskScore = p[n], isRevealed = TRUE   *)
(* to the Decrypted Result of the token's analysis.                        *)
C9_SplitsPlaintexts ==
    [][(lastCall'.op = "decryptAnalysisResult" /\ lastCall'.ok) =>
          LET t == lastCall'.arg IN
          \A pl \in SeqsUpTo(Plain, MaxRing + 1), p \in Proofs :
             DecryptAnalysisResult(t, AbiEncode(pl), p) =>
                /\ Len(pl) >= 1
                /\ decryptedResults'[requestToAnalysisId[t]] =
                      [ringMembers |-> SubSeq(pl, 1, Len(pl) - 1),
                       riskScore |-> pl[Len(pl)],
                       isRevealed |-> TRUE]]_vars

C9_Witness ==
    /\ lastCall.op = "decryptAnalysisResult"
    /\ lastCall.ok
    /\ \E a \in AnalysisIds :
          /\ decryptedResults[a].isRevealed
          /\ Len(decryptedResults[a].ringMembers) = MaxRing
          /\ decryptedResults[a].ringMembers[1] # decryptedResults[a].riskScore

(* C10 as stated: in the end-to-end scenario, getDecryptedAnalysisResult   *)
(* right after the successful callback returns members [1,2,0], score 3,   *)
(* revealed.                                                               *)
C10_SentinelDropped ==
    [][( /\ lastCall.op = "decryptAnalysisResult"
         /\ lastCall.ok
         /\ E2EMatrixBuilt
         /\ E2EGetDecrypted ) =>
          lastCall'.ret = [ringMembers |-> <<1, 2, 0>>, riskScore |-> 3,
                           isRevealed |-> TRUE]]_vars

(* C10 amended: in the end-to-end scenario, getDecryptedAnalysisResult     *)
(* right after the successful callback returns all four delivered members  *)
(* [1,2,0,0], score 3, revealed.                                           *)
C10_AllMembersReturned ==
    [][( /\ lastCall.op = "decryptAnalysisResult"
         /\ lastCall.ok
         /\ E2EMatrixBuilt
         /\ E2EGetDecrypted ) =>
          lastCall'.ret = [ringMembers |-> <<1, 2, 0, 0>>, riskScore |-> 3,
                           isRevealed |-> TRUE]]_vars

C10_Witness ==
    /\ lastCall.op = "getDecryptedAnalysisResult"
    /\ lastCall.ret.isRevealed
    /\ lastCall.ret.riskScore = E2E.score
    /\ E2EMatrixBuilt
    /\ E2E.analysisId \in {issuedFor[t] : t \in consumed}

---------------------------------------------------------------------------
(* Properties of the adjacency matrix and the traversal (SpecMatrix).       *)

(* C11: a successful addEncryptedEdge(from, to, w) overwrites cell          *)
(* (from, to) with w and changes no other cell and not the size; a          *)
(* getAdjacencyElement(from, to) made right after it returns w.             *)
C11_SetEdgeOverwrites ==
    [][/\ (lastCall'.op = "addEncryptedEdge"
           /\ lastCall'.arg[1] < matrixSize /\ lastCall'.arg[2] < matrixSize) =>
              /\ lastCall'.ok
              /\ matrixSize' = matrixSize
              /\ Len(encryptedAdjacencyMatrix') = Len(encryptedAdjacencyMatrix)
              /\ \A i, j \in 0..(matrixSize - 1) :
                    encryptedAdjacencyMatrix'[CellIndex(i, j)] =
                        IF i = lastCall'.arg[1] /\ j = lastCall'.arg[2]
                        THEN lastCall'.arg[3]
                        ELSE encryptedAdjacencyMatrix[CellIndex(i, j)]
       /\ (/\ lastCall.op = "addEncryptedEdge" /\ lastCall.ok
           /\ lastCall'.op = "getAdjacencyElement"
           /\ lastCall'.arg = <<lastCall.arg[1], lastCall.arg[2]>>) =>
              lastCall'.ok /\ lastCall'.ret = lastCall.arg[3]]_vars

C11_Witness ==
    /\ lastCall.op = "addEncryptedEdge" /\ lastCall.ok
    /\ matrixSize = 2 /\ lastCall.arg = <<0, 1, Enc(0)>>
    /\ encryptedAdjacencyMatrix[CellIndex(1, 0)] = Enc(1)
    /\ encryptedAdjacencyMatrix[CellIndex(0, 1)] = Enc(0)

(* C12: after initializeAdjacencyMatrix(size), size > 0, run in any state,  *)
(* the matrix has that size and every cell (i, j), i, j < size, holds an    *)
(* encryption of zero, whatever edges were there before; a                  *)
(* getAdjacencyElement made right after it returns an encryption of zero.   *)
C12_InitializeZeroes ==
    [][/\ (lastCall'.op = "initializeAdjacencyMatrix" /\ lastCall'.arg > 0) =>
              /\ lastCall'.ok
              /\ matrixSize' = lastCall'.arg
              /\ Len(encryptedAdjacencyMatrix') = matrixSize' * matrixSize'
              /\ \A k \in 1..(matrixSize' * matrixSize') :
                    encryptedAdjacencyMatrix'[k] = Enc(0)
       /\ (/\ lastCall.op = "initializeAdjacencyMatrix" /\ lastCall.arg > 0
           /\ lastCall'.op = "getAdjacencyElement"
           /\ lastCall'.arg[1] < lastCall.arg /\ lastCall'.arg[2] < lastCall.arg) =>
              lastCall'.ok /\ lastCall'.ret = Enc(0)]_vars

C12_Witness ==
    /\ lastCall.op = "initializeAdjacencyMatrix" /\ lastCall.arg = 2
    /\ matrixSize = 2 /\ encryptedAdjacencyMatrix = <<Enc(0), Enc(0), Enc(0), Enc(0)>>

(* C13: initializeAdjacencyMatrix(0) fails and leaves the matrix and its    *)
(* size as they were.                                                       *)
C13_ZeroSizeRejected ==
    [][(lastCall'.op = "initializeAdjacencyMatrix" /\ lastCall'.arg = 0) =>
          /\ ~lastCall'.ok
          /\ matrixSize' = matrixSize
          /\ encryptedAdjacencyMatrix' = encryptedAdjacencyMatrix]_vars

(* C14: addEncryptedEdge and getAdjacencyElement fail with "Invalid index"  *)
(* when either index is at or past the current size, a never-initialised    *)
(* matrix (size 0) included, and the failing call changes no state.         *)
C14_OutOfRangeRejected ==
    [][(/\ lastCall'.op \in {"addEncryptedEdge", "getAdjacencyElement"}
        /\ (lastCall'.arg[1] >= matrixSize \/ lastCall'.arg[2] >= matrixSize)) =>
          /\ ~lastCall'.ok /\ lastCall'.err = "Invalid index"
          /\ UNCHANGED <<contractVars, historyVars>>]_vars

C14_Witness ==
    /\ lastCall.op = "addEncryptedEdge" /\ ~lastCall.ok
    /\ lastCall.err = "Invalid index"
    /\ matrixSize = 2 /\ lastCall.arg[1] = 1 /\ lastCall.arg[2] = 2
    /\ \E k \in 1..Len(encryptedAdjacencyMatrix) : encryptedAdjacencyMatrix[k] = Enc(1)

(* C18: on a matrix of size N > 0, encryptedBFS runs exactly N rounds and   *)
(* returns an array of exactly N entries, for every start node.             *)
C18_ExactlySizeRounds ==
    [][(lastCall'.op = "encryptedBFS" /\ matrixSize > 0) =>
          /\ lastCall'.ok
          /\ lastCall'.ret.rounds = matrixSize
          /\ Len(lastCall'.ret.result) = matrixSize]_vars

(* C19: encryptedBFS fails with "Matrix not initialized" while the size is  *)
(* zero, and on an initialised matrix it has no failure at all: it returns  *)
(* a result for every start node.                                           *)
C19_OnlyUninitialisedFails ==
    [][lastCall'.op = "encryptedBFS" =>
          IF matrixSize = 0
          THEN ~lastCall'.ok /\ lastCall'.err = "Matrix not initialized"
          ELSE lastCall'.ok]_vars

---------------------------------------------------------------------------
(* Properties of the ledger, the getters and the callers (SpecContract),   *)
(* and of the plaintext getter (SpecReveal).                                *)

(* C15: the ledger is append-only: a submission takes the id one above the  *)
(* counter and advances the counter to it, so ids are unique and strictly   *)
(* increasing from 1; no step of any function changes or removes a record   *)
(* stored under an id already assigned, and no other function touches the   *)
(* ledger at all.                                                           *)
C15_LedgerAppendOnly ==
    [][/\ transactionCount' >= transactionCount
       /\ \A id \in 1..transactionCount :
             encryptedTransactions'[id] = encryptedTransactions[id]
       /\ lastCall'.op = "submitEncryptedTransaction" =>
             /\ lastCall'.ok
             /\ lastCall'.arg = transactionCount + 1
             /\ transactionCount' = transactionCount + 1
             /\ encryptedTransactions'[lastCall'.arg].id = lastCall'.arg
       /\ lastCall'.op # "submitEncryptedTransaction" =>
             UNCHANGED <<transactionCount, encryptedTransactions>>]_vars

C15_Witness ==
    /\ transactionCount = 2
    /\ encryptedTransactions[1].id = 1 /\ encryptedTransactions[2].id = 2
    /\ encryptedTransactions[1].encryptedAmount # encryptedTransactions[2].encryptedAmount
    /\ lastCall.op = "storeAnalysisResults"

(* C16: getDecryptedAnalysisResult succeeds for every analysis id in every  *)
(* reachable state, and an analysis whose revealed flag is false has an     *)
(* empty member list, in storage and in what the getter returns.            *)
C16_UnrevealedHasNoMembers ==
    /\ \A a \in AnalysisIds :
          ~decryptedResults[a].isRevealed => decryptedResults[a].ringMembers = <<>>
    /\ lastCall.op = "getDecryptedAnalysisResult" =>
          /\ lastCall.ok
          /\ ~lastCall.ret.isRevealed => lastCall.ret.ringMembers = <<>>

C16_Witness ==
    /\ lastCall.op = "getDecryptedAnalysisResult"
    /\ ~lastCall.ret.isRevealed
    /\ \E t \in consumed : issuedFor[t] = lastCall.arg

(* C17: getEncryptedAnalysisResult, getDecryptedAnalysisResult and          *)
(* getAdjacencyElement are read-only: whether the call succeeds or fails,   *)
(* every state variable of the contract is unchanged, and the same call     *)
(* repeated right away has the same outcome.                                *)
C17_GettersReadOnly ==
    [][lastCall'.op \in {"getEncryptedAnalysisResult", "getDecryptedAnalysisResult",
                         "getAdjacencyElement"} =>
          /\ UNCHANGED <<contractVars, historyVars>>
          /\ (lastCall.op = lastCall'.op /\ lastCall.arg = lastCall'.arg) =>
                lastCall' = lastCall]_vars

C17_Witness ==
    /\ lastCall.op = "getDecryptedAnalysisResult"
    /\ lastCall.ret.isRevealed /\ lastCall.ret.ringMembers # <<>>
    /\ decryptedResults[lastCall.arg].isRevealed
    /\ transactionCount > 0 /\ matrixSize > 0

(* C20: a call of a regulator-gated function (initializeAdjacencyMatrix,    *)
(* addEncryptedEdge, startRingDetection, storeAnalysisResults,              *)
(* requestResultDecryption) by an account that is not an authorised         *)
(* regulator is rejected and changes no state.                              *)
C20_OnlyRegulatorMayCall ==
    [][(lastCall'.op \in GatedOps /\ sender' \notin Regulators) =>
          /\ ~lastCall'.ok
          /\ UNCHANGED <<contractVars, historyVars>>]_vars

---------------------------------------------------------------------------
(* Properties of ring detection, the protocol phases, the matrix frame,     *)
(* the access pattern and atomicity.                                        *)

(* C21: a successful startRingDetection leaves a complete encrypted result  *)
(* stored under the analysis id it announces, so that a                     *)
(* getEncryptedAnalysisResult of that id made right after it succeeds.      *)
C21_DetectionStoresResult ==
    [][/\ (lastCall'.op = "startRingDetection" /\ lastCall'.ok) =>
             analysisResults'[lastCall'.arg].isComplete
       /\ (/\ lastCall.op = "startRingDetection" /\ lastCall.ok
           /\ lastCall'.op = "getEncryptedAnalysisResult"
           /\ lastCall'.arg = lastCall.arg) => lastCall'.ok]_vars

(* C23: in every reachable state the matrix holds exactly                   *)
(* matrixSize * matrixSize cells, so every pair (i, j) with i, j below the  *)
(* size has an entry; the cells and the size change only in a step of       *)
(* initializeAdjacencyMatrix or addEncryptedEdge.                           *)
C23_MatrixShapeAndFrame ==
    /\ [](/\ Len(encryptedAdjacencyMatrix) = matrixSize * matrixSize
          /\ \A i, j \in 0..(matrixSize - 1) :
                InBounds(encryptedAdjacencyMatrix, i * matrixSize + j + 1))
    /\ [][matrixVars' # matrixVars =>
             lastCall'.op \in {"initializeAdjacencyMatrix", "addEncryptedEdge"}]_vars

C23_Witness ==
    /\ matrixSize = 1 /\ encryptedAdjacencyMatrix = <<Enc(1)>>
    /\ transactionCount > 0
    /\ lastCall.op = "decryptAnalysisResult" /\ lastCall.ok

(* C24: the access pattern of encryptedBFS does not depend on the start     *)
(* node: two runs on the same matrix with different start nodes both fail   *)
(* or both succeed, they touch the same indices round by round, and the     *)
(* index touched in round i is i.                                           *)
C24_AccessPatternFixed ==
    [][(lastCall.op = "encryptedBFS" /\ lastCall'.op = "encryptedBFS"
           /\ matrixSize > 0) =>
          /\ lastCall'.ok = lastCall.ok
          /\ lastCall'.ok =>
                /\ lastCall'.ret.touched = lastCall.ret.touched
                /\ lastCall'.ret.touched =
                      [i \in 1..matrixSize |-> [visited |-> i - 1, result |-> i - 1]]]_vars

(* C25: a failing call of submitEncryptedTransaction,                       *)
(* initializeAdjacencyMatrix, addEncryptedEdge, storeAnalysisResults,       *)
(* requestResultDecryption or decryptAnalysisResult leaves the ledger, the  *)
(* counter, the matrix, the analysis results, the decrypted results and     *)
(* the token map exactly as they were before the call.                      *)
C25_FailureChangesNothing ==
    [][(/\ lastCall'.op \in {"submitEncryptedTransaction", "initializeAdjacencyMatrix",
                             "addEncryptedEdge", "storeAnalysisResults",
                             "requestResultDecryption", "decryptAnalysisResult"}
        /\ ~lastCall'.ok) =>
          UNCHANGED <<contractVars, historyVars>>]_vars

C25_Witness ==
    /\ lastCall.op = "decryptAnalysisResult" /\ ~lastCall.ok
    /\ lastCall.err = "Proof verification failed"
    /\ Live(lastCall.arg)
    /\ transactionCount > 0 /\ matrixSize > 0

---------------------------------------------------------------------------
(* Properties of the reveal protocol as a whole (SpecReveal).               *)

(* An analysis is in phase RequestIssued when it is complete, unrevealed    *)
(* and a live token was issued for it.                                      *)
RequestIssued(a) ==
    /\ analysisResults[a].isComplete /\ ~decryptedResults[a].isRevealed
    /\ \E t \in RequestIds : Live(t) /\ issuedFor[t] = a

(* C22: per analysis id the phases run Complete(unrevealed) ->              *)
(* RequestIssued -> Revealed.  An analysis becomes revealed only if a       *)
(* request for its id succeeded after the bundle now stored was stored:     *)
(* such a request recorded the handles of that bundle as its batch, so      *)
(* some token issued for the id carries exactly the stored bundle.  And an  *)
(* analysis in RequestIssued does not go back to complete and unrevealed    *)
(* with no live request.                                                    *)
C22_PhasesInOrder ==
    [][\A a \in AnalysisIds :
         /\ (~decryptedResults[a].isRevealed /\ decryptedResults'[a].isRevealed) =>
               \E t \in RequestIds :
                  /\ issuedFor[t] = a
                  /\ requestedHandles[t] = Ciphertexts(analysisResults[a])
         /\ RequestIssued(a) =>
               ~(/\ analysisResults'[a].isComplete /\ ~decryptedResults'[a].isRevealed
                 /\ ~\E t \in RequestIds : issuedFor'[t] = a /\ t \notin consumed')]_vars

(* C27: for a token recorded by a successful requestResultDecryption, a     *)
(* callback carrying it with a proof that verifies, delivered while the     *)
(* token's analysis is unrevealed, is accepted and marks that analysis      *)
(* revealed.                                                                *)
C27_ValidCallbackReveals ==
    [][LET t == lastCall'.arg IN
       ( /\ lastCall'.op = "decryptAnalysisResult"
         /\ issuedFor[t] # NotIssued
         /\ ~decryptedResults[issuedFor[t]].isRevealed ) =>
          \A c \in Cleartexts, p \in Proofs :
             (CheckSignatures(t, c, p) /\ DecryptAnalysisResult(t, c, p)) =>
                /\ lastCall'.ok
                /\ decryptedResults'[issuedFor[t]].isRevealed]_vars

(* C28: whenever an analysis is revealed, its plaintext members and score   *)
(* are the decryption of the encrypted bundle stored under its id, member   *)
(* for member.                                                              *)
C28_RevealedIsStoredBundle ==
    \A a \in AnalysisIds :
       decryptedResults[a].isRevealed =>
          /\ decryptedResults[a].ringMembers =
                DecryptBatch(analysisResults[a].encryptedRingMembers)
          /\ decryptedResults[a].riskScore =
                Decrypt(analysisResults[a].encryptedRiskScore)

---------------------------------------------------------------------------
(* Property of callbacks of different analyses (SpecPair).                  *)

(* C26: in every reachable state, for two live tokens mapped to distinct    *)
(* analysis ids and the oracle's proved plaintexts for each, delivering     *)
(* the two callbacks in either order yields the same decrypted results;     *)
(* and a callback step leaves every encrypted result, and the decrypted     *)
(* result of every analysis other than the token's, unchanged.              *)
C26_CallbacksCommute ==
    /\ [](\A t1, t2 \in RequestIds :
            (/\ Live(t1) /\ Live(t2)
             /\ requestToAnalysisId[t1] # requestToAnalysisId[t2]) =>
               LET c1 == AbiEncode(DecryptBatch(requestedHandles[t1]))
                   c2 == AbiEncode(DecryptBatch(requestedHandles[t2]))
               IN  AfterCallback(AfterCallback(decryptedResults, t1, c1, "kms"), t2, c2, "kms")
                   = AfterCallback(AfterCallback(decryptedResults, t2, c2, "kms"), t1, c1, "kms"))
    /\ [][lastCall'.op = "decryptAnalysisResult" =>
             /\ analysisResults' = analysisResults
             /\ \A a \in MappingKeys :
                   a # requestToAnalysisId[lastCall'.arg] =>
                      decryptedResults'[a] = decryptedResults[a]]_vars

C26_Witness ==
    /\ lastCall.op = "decryptAnalysisResult" /\ lastCall.ok
    /\ counterRequest = 2
    /\ requestToAnalysisId[0] # requestToAnalysisId[1]
    /\ consumed = {0, 1}
    /\ \A a \in PairIds : decryptedResults[a].isRevealed

---------------------------------------------------------------------------
(* Property of the dashboard's case registry (SpecDashboard).               *)

(* C29: once every submitRing call has completed successfully, the list     *)
(* stored under ring_keys contains the id of every ring stored, whatever    *)
(* the interleaving of the calls.                                           *)
C29_EveryRingListed ==
    (\A c \in Clients : sessions[c].pc = "done") =>
       \A id \in dataStore.rings : id \in Elements(ParseKeys(dataStore.ringKeys))

=============================================================================
